---- MODULE Spec2Model ----
(***************************************************************************)
(* A model of the bookcase configurator: the configuration owned by App,   *)
(* the ConfigPanel edits, and the BookcaseViewer scene (solid group,       *)
(* hit-region group, highlight, drag state) with its rebuild effect.       *)
(*                                                                         *)
(* Lengths are integers in micrometres (1 m = 1000000).  The source        *)
(* computes in IEEE doubles; a division that is not exact is modelled by   *)
(* integer division, which is off by less than one micrometre.            *)
(*                                                                         *)
(* React runs the two [config] effects of BookcaseViewer (configRef        *)
(* update, rebuild) together, some time after setConfig: the model has a   *)
(* separate step ConfigEffects for them.  The camera is moved by           *)
(* OrbitControls outside the model, so the ray of a pointer event is an    *)
(* input of the handler: which hit-region it hits first (if any), whether  *)
(* it hits the solid group, and where it meets the drag plane (if at all). *)
(* The CSS cursor and isOverBookcase are output only and are left out.     *)
(* SpecHover fixes the camera and ties the ray to the pointer's place: a   *)
(* press casts the ray of the pointer stored by the last move.             *)
(***************************************************************************)
EXTENDS Integers, Sequences, FiniteSets, TLC

(***************************************************************************)
(* Bounds of the model.                                                    *)
(***************************************************************************)
MaxShelves == 1      \* the shelves slider is moved within 1..MaxShelves
MaxDrawers == 2      \* an edit is taken while it leaves at most this many drawers
MaxPending == 2      \* setConfig calls that may pile up before the effects run
MaxClicks == 4       \* consecutive clicks on one compartment (SpecCycle)

(***************************************************************************)
(* Configuration (Bookcase.tsx) and the default of App.                     *)
(***************************************************************************)
DrawerTypes == {"solid", "glass"}

DefaultConfig ==
  [width |-> 2500000, height |-> 2400000, depth |-> 400000,
   shelves |-> 4, divisions |-> 2, thickness |-> 40000,
   color |-> "#daa520", drawers |-> <<>>]

\* Array.prototype.findIndex over the drawers, 1-based; 0 stands for JS -1.
FindIndex(drawers, row, column) ==
  LET hits == {i \in 1..Len(drawers) :
                 drawers[i].row = row /\ drawers[i].column = column}
  IN  IF hits = {} THEN 0 ELSE CHOOSE i \in hits : \A j \in hits : i <= j

\* drawers.filter((_, i) => i !== index)
FilterOutIndex(drawers, index) ==
  [k \in 1..(Len(drawers) - 1) |-> IF k < index THEN drawers[k] ELSE drawers[k + 1]]

\* A faulty handleCompartmentClick: it appends without looking for an existing drawer.
HandleCompartmentClickAlwaysAdds(currentConfig, row, column) ==
  [currentConfig EXCEPT !.drawers =
     Append(currentConfig.drawers, [row |-> row, column |-> column, type |-> "solid"])]

\* A faulty handleCompartmentClick: a glass drawer goes back to solid, never away.
HandleCompartmentClickToggles(currentConfig, row, column) ==
  LET drawerIndex == FindIndex(currentConfig.drawers, row, column)
  IN  [currentConfig EXCEPT !.drawers =
         IF drawerIndex > 0
         THEN [currentConfig.drawers EXCEPT ![drawerIndex].type =
                 IF @ = "solid" THEN "glass" ELSE "solid"]
         ELSE Append(currentConfig.drawers,
                     [row |-> row, column |-> column, type |-> "solid"])]

\* A faulty handleCompartmentClick: it spreads the default configuration, not the
\* one it read.
HandleCompartmentClickFromDefault(currentConfig, row, column) ==
  LET drawerIndex == FindIndex(currentConfig.drawers, row, column)
  IN  [DefaultConfig EXCEPT !.drawers =
         IF drawerIndex > 0
         THEN IF currentConfig.drawers[drawerIndex].type = "solid"
              THEN [currentConfig.drawers EXCEPT ![drawerIndex].type = "glass"]
              ELSE FilterOutIndex(currentConfig.drawers, drawerIndex)
         ELSE Append(currentConfig.drawers,
                     [row |-> row, column |-> column, type |-> "solid"])]

\* handleCompartmentClick: the configuration it passes to onConfigChange.
HandleCompartmentClick(currentConfig, row, column) ==
  LET drawerIndex == FindIndex(currentConfig.drawers, row, column)
      newDrawers ==
        IF drawerIndex > 0
        THEN IF currentConfig.drawers[drawerIndex].type = "solid"
             THEN [currentConfig.drawers EXCEPT ![drawerIndex].type = "glass"]
             ELSE FilterOutIndex(currentConfig.drawers, drawerIndex)
        ELSE Append(currentConfig.drawers,
                    [row |-> row, column |-> column, type |-> "solid"])
  IN  [currentConfig EXCEPT !.drawers = newDrawers]

\* ConfigPanel.updateConfig: { ...config, [key]: value }
UpdateConfig(cfg, key, value) == [cfg EXCEPT ![key] = value]

\* ConfigPanel.addDrawer
AddDrawer(cfg, row, column, type) ==
  UpdateConfig(cfg, "drawers",
               Append(cfg.drawers, [row |-> row, column |-> column, type |-> type]))

\* ConfigPanel.removeDrawer
RemoveDrawer(cfg, index) ==
  UpdateConfig(cfg, "drawers", FilterOutIndex(cfg.drawers, index))

\* ConfigPanel.toggleDrawerType
ToggleDrawerType(cfg, index) ==
  UpdateConfig(cfg, "drawers",
               [cfg.drawers EXCEPT ![index].type =
                  IF @ = "solid" THEN "glass" ELSE "solid"])

\* The grid button at `index` (0-based, row-major from the top): its cell.
GridCell(cfg, index) ==
  [row |-> cfg.shelves - (index \div (cfg.divisions + 1)),
   column |-> index % (cfg.divisions + 1)]

GridIndexes(cfg) == 0..((cfg.shelves + 1) * (cfg.divisions + 1) - 1)

\* A faulty onClick of a grid button: as the viewer's click, it removes a glass drawer.
GridCellClickRemovesGlass(cfg, index) ==
  LET cell == GridCell(cfg, index)
      hasDrawer == FindIndex(cfg.drawers, cell.row, cell.column)
  IN  IF hasDrawer > 0
      THEN IF cfg.drawers[hasDrawer].type = "solid"
           THEN ToggleDrawerType(cfg, hasDrawer)
           ELSE RemoveDrawer(cfg, hasDrawer)
      ELSE AddDrawer(cfg, cell.row, cell.column, "solid")

\* onClick of a grid button: toggle the drawer of the cell, or add a solid one.
GridCellClick(cfg, index) ==
  LET cell == GridCell(cfg, index)
      hasDrawer == FindIndex(cfg.drawers, cell.row, cell.column)
  IN  IF hasDrawer > 0
      THEN ToggleDrawerType(cfg, hasDrawer)
      ELSE AddDrawer(cfg, cell.row, cell.column, "solid")

\* onClick of the remove button of a grid cell (rendered only over a drawer).
GridCellRemove(cfg, index) ==
  LET cell == GridCell(cfg, index)
  IN  RemoveDrawer(cfg, FindIndex(cfg.drawers, cell.row, cell.column))

(***************************************************************************)
(* createBookcase: the meshes it adds to the solid group and to the        *)
(* hit-region group, and the geometries and materials it allocates.        *)
(* A resource is named <<"geometry" | "material", what it belongs to, n>>. *)
(***************************************************************************)
Vec(x, y, z) == [x |-> x, y |-> y, z |-> z]

Geometry(kind, n) == <<"geometry", kind, n>>
Material(kind, n) == <<"material", kind, n>>

\* The templates createBookcase allocates and only ever clones.
WoodMaterial == Material("woodMaterial", 0)
GlassMaterial == Material("glassMaterial", 0)
\* The one material shared by every hit-region.
CompartmentMaterial == Material("compartmentMaterial", 0)

Mesh(kind, n, material, w, h, d, x, y, z) ==
  [kind |-> kind, geometry |-> Geometry(kind, n), material |-> material,
   size |-> [w |-> w, h |-> h, d |-> d], position |-> Vec(x, y, z)]

\* createBox: a new BoxGeometry and a clone of woodMaterial.
CreateBox(kind, n, w, h, d, x, y, z) ==
  Mesh(kind, n, Material(kind, n), w, h, d, x, y, z)

UsableHeight(cfg) == cfg.height - cfg.thickness * 2
UsableWidth(cfg) == cfg.width - cfg.thickness * 2
CompartmentHeight(cfg) == UsableHeight(cfg) \div (cfg.shelves + 1)
CompartmentWidth(cfg) == UsableWidth(cfg) \div (cfg.divisions + 1)

\* -width / 2 + thickness + compartmentWidth * (column + 0.5)
CellX(cfg, column) ==
  (0 - cfg.width) \div 2 + cfg.thickness
    + (CompartmentWidth(cfg) * (2 * column + 1)) \div 2
\* thickness + compartmentHeight * (row + 0.5)
CellY(cfg, row) ==
  cfg.thickness + (CompartmentHeight(cfg) * (2 * row + 1)) \div 2

\* Main structure: bottom, top, left, right, back panel.
MainStructure(cfg) ==
  LET w == cfg.width  h == cfg.height  d == cfg.depth  t == cfg.thickness
      backThickness == t \div 2
  IN  << CreateBox("bottom", 0, w, t, d, 0, t \div 2, 0),
         CreateBox("top", 0, w, t, d, 0, h - t \div 2, 0),
         CreateBox("left", 0, t, h, d, (0 - w) \div 2 + t \div 2, h \div 2, 0),
         CreateBox("right", 0, t, h, d, w \div 2 - t \div 2, h \div 2, 0),
         Mesh("back", 0, Material("back", 0), w - t * 2, h - t * 2, backThickness,
              0, h \div 2, (0 - d) \div 2 + backThickness \div 2) >>

ShelfBoxes(cfg) ==
  IF cfg.shelves > 0
  THEN LET shelfSpacing == UsableHeight(cfg) \div (cfg.shelves + 1)
       IN  [i \in 1..cfg.shelves |->
              CreateBox("shelf", i, cfg.width - cfg.thickness * 2, cfg.thickness,
                        cfg.depth, 0, cfg.thickness + shelfSpacing * i, 0)]
  ELSE << >>

DivisionBoxes(cfg) ==
  IF cfg.divisions > 0
  THEN LET divisionSpacing == UsableWidth(cfg) \div (cfg.divisions + 1)
       IN  [i \in 1..cfg.divisions |->
              CreateBox("division", i, cfg.thickness, cfg.height - cfg.thickness * 2,
                        cfg.depth,
                        (0 - cfg.width) \div 2 + cfg.thickness + divisionSpacing * i,
                        cfg.height \div 2, 0)]
  ELSE << >>

UnitScale == [x |-> 1, y |-> 1, z |-> 1]

\* A faulty hit-region loop: "row < shelves" leaves out the top row.
CompartmentMeshesWithoutTopRow(cfg) ==
  [n \in 1..(cfg.shelves * (cfg.divisions + 1)) |->
     [kind |-> "compartment", geometry |-> Geometry("compartment", n),
      material |-> Material("compartmentMaterial", 0),
      size |-> [w |-> 0, h |-> 0, d |-> 0],
      position |-> Vec(0, 0, 0),
      scale |-> [x |-> 1, y |-> 1, z |-> 1],
      userData |-> [row |-> (n - 1) \div (cfg.divisions + 1),
                    column |-> (n - 1) % (cfg.divisions + 1)]]]

\* The hit-regions, row by row: one PlaneGeometry each, all with compartmentMaterial.
CompartmentMeshes(cfg) ==
  [n \in 1..((cfg.shelves + 1) * (cfg.divisions + 1)) |->
     LET row == (n - 1) \div (cfg.divisions + 1)
         col == (n - 1) % (cfg.divisions + 1)
     IN  [kind |-> "compartment", geometry |-> Geometry("compartment", n),
          material |-> CompartmentMaterial,
          size |-> [w |-> CompartmentWidth(cfg) - cfg.thickness * 2,
                    h |-> CompartmentHeight(cfg) - cfg.thickness * 2, d |-> 0],
          position |-> Vec(CellX(cfg, col), CellY(cfg, row), cfg.depth \div 3),
          scale |-> UnitScale,
          userData |-> [row |-> row, column |-> col]]]

\* A faulty drawer loop: a glass drawer gets its box and frame strips but no handle.
DrawerMeshesGlassWithoutHandle(cfg, i) ==
  [k \in 1..(IF cfg.drawers[i].type = "solid" THEN 2 ELSE 5) |->
     Mesh(IF k = 1 THEN "drawer" ELSE "part", 10 * i + k, Material("part", 10 * i + k),
          0, 0, 0, 0, 0, 0)]

\* The meshes drawers.forEach adds for the i-th drawer entry.
DrawerMeshes(cfg, i) ==
  LET drawer == cfg.drawers[i]
      t == cfg.thickness
      drawerX == CellX(cfg, drawer.column)
      drawerY == CellY(cfg, drawer.row)
      drawerZ == cfg.depth \div 4
      drawerWidth == CompartmentWidth(cfg) - (t * 3) \div 2
      drawerHeight == CompartmentHeight(cfg) - (t * 3) \div 2
      drawerDepth == (t * 3) \div 2
      drawerMesh == Mesh("drawer", i, Material("drawer", i),
                         drawerWidth, drawerHeight, drawerDepth,
                         drawerX, drawerY, drawerZ)
      frameThickness == (t * 3) \div 10
      frameMaterial == Material("frameMaterial", i)
      Frame(k, w, h, x, y) ==
        Mesh("frame", 4 * (i - 1) + k, frameMaterial, w, h, drawerDepth,
             drawerX + x, drawerY + y, drawerZ)
  IN  IF drawer.type = "solid"
      THEN << drawerMesh,
              Mesh("handle", i, Material("handleMaterial", i),
                   drawerWidth \div 5, t, t, drawerX, drawerY, drawerZ + t) >>
      ELSE << drawerMesh,
              Frame(1, drawerWidth, frameThickness, 0, drawerHeight \div 2),
              Frame(2, drawerWidth, frameThickness, 0, 0 - drawerHeight \div 2),
              Frame(3, frameThickness, drawerHeight, 0 - drawerWidth \div 2, 0),
              Frame(4, frameThickness, drawerHeight, drawerWidth \div 2, 0),
              Mesh("handle", i, frameMaterial,
                   (drawerWidth * 3) \div 20, frameThickness * 2, frameThickness * 2,
                   drawerX, drawerY, drawerZ + t) >>

RECURSIVE DrawerMeshesUpTo(_, _)
DrawerMeshesUpTo(cfg, i) ==
  IF i = 0 THEN << >> ELSE DrawerMeshesUpTo(cfg, i - 1) \o DrawerMeshes(cfg, i)

\* What createBookcase adds to bookcaseGroup, in order.
SolidMeshes(cfg) ==
  MainStructure(cfg) \o ShelfBoxes(cfg) \o DivisionBoxes(cfg)
    \o DrawerMeshesUpTo(cfg, Len(cfg.drawers))

Range(seq) == {seq[i] : i \in DOMAIN seq}

\* Every geometry and material one call of createBookcase allocates.
CreatedResources(cfg) ==
  {WoodMaterial, GlassMaterial, CompartmentMaterial}
    \cup {m.geometry : m \in Range(SolidMeshes(cfg)) \cup Range(CompartmentMeshes(cfg))}
    \cup {m.material : m \in Range(SolidMeshes(cfg)) \cup Range(CompartmentMeshes(cfg))}

(***************************************************************************)
(* The scene of BookcaseViewer and the rebuild effect.                     *)
(***************************************************************************)
Origin == Vec(0, 0, 0)

\* new THREE.Group(): no children, at the origin.
FreshGroup == [children |-> << >>, position |-> Origin]

\* The highlight mesh as the init effect leaves it.
FreshHighlight == [visible |-> FALSE, position |-> Origin, scale |-> UnitScale]

\* new THREE.BoxGeometry(1, 1, 0.01): the highlight's width and height at scale 1.
HighlightGeometry == [w |-> 1000000, h |-> 1000000]

\* hoveredCompartment = null
NoCompartment == [row |-> -1, column |-> -1]

\* ray.intersectPlane(dragPlane, target) found nothing: target is left as constructed.
NoIntersection == [found |-> FALSE, point |-> Origin]

\* A faulty teardown: the old children stay in the group.
ClearChildrenKeepsThem(children) == children

\* "while (children.length > 0) { remove(children[0]); dispose }": what is left.
ClearChildren(children) == << >>

\* How often the teardown loops call dispose() on resource r.
DisposeCalls(children, r) ==
  Cardinality({i \in DOMAIN children : children[i].geometry = r})
    + Cardinality({i \in DOMAIN children : children[i].material = r})

\* "Restore position if it was moved, otherwise align to back wall".
RestorePosition(currentPosition, cfg) ==
  IF currentPosition.x # 0 \/ currentPosition.z # 0
  THEN currentPosition
  ELSE Vec(0, 0, -5000000 + cfg.depth \div 2 + 50000)

\* The solid group after the rebuild effect has run for cfg.
RebuiltBookcase(group, cfg) ==
  [children |-> ClearChildren(group.children) \o SolidMeshes(cfg),
   position |-> RestorePosition(group.position, cfg)]

\* The hit-region group after the rebuild effect: positioned with the solid group.
RebuiltCompartments(group, solid, cfg) ==
  [children |-> ClearChildren(group.children) \o CompartmentMeshes(cfg),
   position |-> solid.position]

VARIABLES
  config,              \* App: the configuration state
  configRef,           \* BookcaseViewer: configRef.current
  pendingEdits,        \* setConfig calls since the [config] effects last ran
  bookcase,            \* sceneRef.current.bookcase: children and position
  compartments,        \* sceneRef.current.compartments: children and position
  highlightMesh,       \* sceneRef.current.highlightMesh: visible, position, scale
  hoveredCompartment,  \* the hoveredCompartment state
  isDragging,          \* sceneRef.current.isDragging
  controlsEnabled,     \* sceneRef.current.controls.enabled
  dragOffset,          \* sceneRef.current.dragOffset
  created,             \* the resources allocated by the build that is live
  disposeLog,          \* per resource of the build torn down last: its dispose() calls
  pressY,              \* history: the root's y at the press that started the last drag
  lastIntersect,       \* history: the last plane intersection computed by a drag move
  cycle,               \* SpecCycle: the compartment clicked and the drawer states seen
  trip,                \* SpecRebuild: configurations A and B and the configurations still to set
  pointerInside,       \* the browser: whether the pointer is over the container
  layout,              \* SpecLayout: a configuration and the positions computed from it
  viewer,              \* sceneRef.current set or null, isLoading, error, and how often
                       \* the initialisation effect has run
  mouse                \* sceneRef.current.mouse, stored by handleMouseMove: the pointer,
                       \* given as the point (x, y) its ray passes, rays parallel to z

vars == << config, configRef, pendingEdits, bookcase, compartments, highlightMesh,
           hoveredCompartment, isDragging, controlsEnabled, dragOffset, created,
           disposeLog, pressY, lastIntersect, cycle, trip, pointerInside, layout,
           viewer, mouse >>

sceneVars == << bookcase, compartments, created, disposeLog >>
pointerVars == << highlightMesh, hoveredCompartment, isDragging, controlsEnabled,
                  dragOffset, pressY, lastIntersect >>
auxVars == << cycle, trip, pointerInside, layout, viewer, mouse >>

\* new THREE.Vector2()
NoMouse == [x |-> 0, y |-> 0]

\* useState(null) for error; the message of setError otherwise.
NoError == "null"

\* The component state once the initialisation effect has run to its end.
MountedViewer == [sceneRef |-> TRUE, isLoading |-> FALSE, error |-> NoError, inits |-> 1]

\* The state once BookcaseViewer has mounted with cfg: all three effects have run.
Mounted(cfg) ==
  /\ viewer = MountedViewer
  /\ mouse = NoMouse
  /\ config = cfg
  /\ configRef = cfg
  /\ pendingEdits = 0
  /\ bookcase = RebuiltBookcase(FreshGroup, cfg)
  /\ compartments = RebuiltCompartments(FreshGroup, RebuiltBookcase(FreshGroup, cfg), cfg)
  /\ highlightMesh = FreshHighlight
  /\ hoveredCompartment = NoCompartment
  /\ isDragging = FALSE
  /\ controlsEnabled = TRUE
  /\ dragOffset = Origin
  /\ created = CreatedResources(cfg)
  /\ disposeLog = << >>
  /\ pressY = 0
  /\ lastIntersect = NoIntersection
  /\ pointerInside = TRUE

NoCycle == [row |-> -1, column |-> -1, seen |-> << >>]
NoTrip == [a |-> DefaultConfig, b |-> DefaultConfig, todo |-> << >>]
NoLayout ==
  [config |-> DefaultConfig, done |-> FALSE,
   shelfPositions |-> << >>, divisionPositions |-> << >>,
   panelPositions |-> << >>, dividerPositions |-> << >>,
   regionSize |-> [w |-> 0, h |-> 0], drawerSize |-> [w |-> 0, h |-> 0]]

Init ==
  /\ Mounted(DefaultConfig)
  /\ cycle = NoCycle
  /\ trip = NoTrip
  /\ layout = NoLayout

\* onConfigChange = setConfig: the new state, and a render with its effects to come.
SetConfig(cfg) ==
  /\ pendingEdits < MaxPending
  /\ Len(cfg.drawers) <= MaxDrawers
  /\ config' = cfg
  /\ pendingEdits' = pendingEdits + 1

(***************************************************************************)
(* The two [config] effects: configRef.current = config, then the rebuild. *)
(***************************************************************************)
ConfigEffects ==
  /\ pendingEdits > 0
  /\ pendingEdits' = 0
  /\ configRef' = config
  /\ IF viewer.sceneRef
     THEN /\ disposeLog' = [r \in created |->
                              DisposeCalls(bookcase.children \o compartments.children, r)]
          /\ bookcase' = RebuiltBookcase(bookcase, config)
          /\ compartments' = RebuiltCompartments(compartments, bookcase', config)
          /\ created' = CreatedResources(config)
     ELSE UNCHANGED sceneVars
  /\ UNCHANGED << config >>
  /\ UNCHANGED pointerVars

(***************************************************************************)
(* The rebuild when createBookcase throws after it has added n meshes: the *)
(* teardown is done, the catch clause logs, the position is not restored.  *)
(* createBookcase adds the structure, shelves and divisions to the solid   *)
(* group, then the hit-regions to their group, then the drawers.           *)
(***************************************************************************)
StructureMeshes(cfg) == MainStructure(cfg) \o ShelfBoxes(cfg) \o DivisionBoxes(cfg)

\* The number of meshes a complete createBookcase adds.
BuildSteps(cfg) == Len(SolidMeshes(cfg)) + Len(CompartmentMeshes(cfg))

Min(a, b) == IF a < b THEN a ELSE b
Max(a, b) == IF a > b THEN a ELSE b

\* The meshes in the solid group when createBookcase has thrown after n adds.
PartialSolidMeshes(cfg, n) ==
  LET structure == Len(StructureMeshes(cfg))
      regions == Len(CompartmentMeshes(cfg))
  IN  SubSeq(StructureMeshes(cfg), 1, Min(n, structure))
        \o SubSeq(DrawerMeshesUpTo(cfg, Len(cfg.drawers)), 1,
                  Max(0, n - structure - regions))

\* The hit-regions in their group when createBookcase has thrown after n adds.
PartialCompartmentMeshes(cfg, n) ==
  SubSeq(CompartmentMeshes(cfg), 1,
         Min(Max(0, n - Len(StructureMeshes(cfg))), Len(CompartmentMeshes(cfg))))

\* Where the build throws in the model: before the first mesh (the textures), after
\* the main structure, and after the hit-regions.
FailurePoints(cfg) ==
  {n \in {0, Len(MainStructure(cfg)),
          Len(StructureMeshes(cfg)) + Len(CompartmentMeshes(cfg))} :
     n < BuildSteps(cfg)}

ConfigEffectsFails(n) ==
  /\ pendingEdits > 0
  /\ pendingEdits' = 0
  /\ configRef' = config
  /\ disposeLog' = [r \in created |->
                      DisposeCalls(bookcase.children \o compartments.children, r)]
  /\ bookcase' = [bookcase EXCEPT
                    !.children = ClearChildren(@) \o PartialSolidMeshes(config, n)]
  /\ compartments' = [compartments EXCEPT
                        !.children = ClearChildren(@) \o PartialCompartmentMeshes(config, n)]
  /\ created' = {WoodMaterial, GlassMaterial}
                  \cup {m.geometry : m \in Range(bookcase'.children)
                                              \cup Range(compartments'.children)}
                  \cup {m.material : m \in Range(bookcase'.children)
                                              \cup Range(compartments'.children)}
  /\ UNCHANGED << config >>
  /\ UNCHANGED pointerVars

(***************************************************************************)
(* Pointer events.  The ray of an event is given by what the handler asks  *)
(* of it: the index of the first hit-region it hits (0: none), and its     *)
(* intersection with the drag plane y = 0.  handleMouseDown starts a drag  *)
(* when the ray hits no hit-region and hits a mesh of the solid group.     *)
(***************************************************************************)
\* Points of the drag plane: the room's centre, a point beside it, and the point under
\* the root as the first build places it.
PlanePoints == {Origin, Vec(1000000, 0, 0), RestorePosition(Origin, DefaultConfig)}

Intersections ==
  {NoIntersection} \cup {[found |-> TRUE, point |-> p] : p \in PlanePoints}

\* The compartments the pointer and the panel are aimed at: a row every shelves value
\* of the model has and the row above it, which the lowest values lack.
TargetRows == {MaxShelves, MaxShelves + 1}
TargetCols == {0}

\* The hit-regions the pointer is aimed at.
Targets ==
  {n \in DOMAIN compartments.children :
     /\ compartments.children[n].userData.row \in TargetRows
     /\ compartments.children[n].userData.column \in TargetCols}

\* The root positions the model lets a drag reach: within a metre of the centre line
\* and between the back wall and its mirror image.
InRoom(p) ==
  /\ p.x >= -1000000 /\ p.x <= 1000000
  /\ p.z >= -5000000 /\ p.z <= 5000000

\* A faulty handleMouseMove: the drag branch reports the move to onConfigChange.
MouseMoveDragEmitsConfig(intersectPoint) ==
  /\ isDragging
  /\ bookcase' = [bookcase EXCEPT
                    !.position.x = intersectPoint.point.x - dragOffset.x,
                    !.position.z = intersectPoint.point.z - dragOffset.z]
  /\ InRoom(bookcase'.position)
  /\ highlightMesh' = [highlightMesh EXCEPT !.visible = FALSE]
  /\ lastIntersect' = IF intersectPoint.found THEN intersectPoint ELSE lastIntersect
  /\ SetConfig(configRef)
  /\ UNCHANGED << configRef, compartments, created, disposeLog,
                  hoveredCompartment, isDragging, controlsEnabled, dragOffset, pressY >>

\* handleMouseMove while dragging.
MouseMoveDrag(intersectPoint) ==
  /\ isDragging
  /\ bookcase' = [bookcase EXCEPT
                    !.position.x = intersectPoint.point.x - dragOffset.x,
                    !.position.z = intersectPoint.point.z - dragOffset.z]
  /\ InRoom(bookcase'.position)
  /\ highlightMesh' = [highlightMesh EXCEPT !.visible = FALSE]
  /\ lastIntersect' = IF intersectPoint.found THEN intersectPoint ELSE lastIntersect
  /\ UNCHANGED << config, configRef, pendingEdits, compartments, created, disposeLog,
                  hoveredCompartment, isDragging, controlsEnabled, dragOffset, pressY >>

\* handleMouseMove while not dragging: hit is the first hit-region hit, or 0.
MouseMoveHover(hit) ==
  /\ ~isDragging
  /\ IF hit > 0
     THEN /\ hoveredCompartment' = compartments.children[hit].userData
          /\ highlightMesh' = [visible |-> TRUE,
                               position |-> compartments.children[hit].position,
                               scale |-> compartments.children[hit].scale]
     ELSE /\ hoveredCompartment' = NoCompartment
          /\ highlightMesh' = [highlightMesh EXCEPT !.visible = FALSE]
  /\ UNCHANGED << config, configRef, pendingEdits, isDragging, controlsEnabled,
                  dragOffset, pressY, lastIntersect >>
  /\ UNCHANGED sceneVars

\* handleMouseDown on a hit-region: handleCompartmentClick(row, column).
MouseDownCompartment(hit) ==
  /\ hit > 0
  /\ SetConfig(HandleCompartmentClick(configRef,
                                      compartments.children[hit].userData.row,
                                      compartments.children[hit].userData.column))
  /\ UNCHANGED << configRef >>
  /\ UNCHANGED sceneVars
  /\ UNCHANGED pointerVars

\* handleMouseDown on no hit-region but on the solid group: the drag starts.
MouseDownBookcase(intersectPoint) ==
  /\ isDragging' = TRUE
  /\ controlsEnabled' = FALSE
  /\ dragOffset' = Vec(intersectPoint.point.x - bookcase.position.x,
                       intersectPoint.point.y - bookcase.position.y,
                       intersectPoint.point.z - bookcase.position.z)
  /\ pressY' = bookcase.position.y
  /\ lastIntersect' = NoIntersection
  /\ UNCHANGED << config, configRef, pendingEdits, highlightMesh, hoveredCompartment >>
  /\ UNCHANGED sceneVars

\* A faulty handleMouseUp: it ends the drag and leaves the orbit control disabled.
MouseUpKeepsControlsOff ==
  /\ isDragging' = FALSE
  /\ UNCHANGED << config, configRef, pendingEdits, highlightMesh, hoveredCompartment,
                  controlsEnabled, dragOffset, pressY, lastIntersect >>
  /\ UNCHANGED sceneVars

\* handleMouseUp (a window listener: every release).
MouseUp ==
  /\ IF isDragging
     THEN /\ isDragging' = FALSE
          /\ controlsEnabled' = TRUE
     ELSE UNCHANGED << isDragging, controlsEnabled >>
  /\ UNCHANGED << config, configRef, pendingEdits, highlightMesh, hoveredCompartment,
                  dragOffset, pressY, lastIntersect >>
  /\ UNCHANGED sceneVars

\* A faulty handleMouseDown: it looks for the solid group before the hit-regions.
MouseDownBookcaseFirst(hit, hitsBookcase, intersectPoint) ==
  IF hitsBookcase
  THEN MouseDownBookcase(intersectPoint)
  ELSE /\ hit > 0
       /\ MouseDownCompartment(hit)

\* handleMouseDown: hit is the first hit-region the ray hits (0: none), hitsBookcase
\* whether it hits a mesh of the solid group, intersectPoint where it meets the plane.
MouseDown(hit, hitsBookcase, intersectPoint) ==
  IF hit > 0
  THEN MouseDownCompartment(hit)
  ELSE IF hitsBookcase
       THEN MouseDownBookcase(intersectPoint)
       ELSE /\ UNCHANGED << config, configRef, pendingEdits >>
            /\ UNCHANGED sceneVars
            /\ UNCHANGED pointerVars

\* handleMouseMove.
MouseMove(hit, intersectPoint) ==
  IF isDragging THEN MouseMoveDrag(intersectPoint) ELSE MouseMoveHover(hit)

\* The pointer leaves the container: no listener is registered for it.
MouseLeave ==
  /\ pointerInside
  /\ pointerInside' = FALSE
  /\ UNCHANGED << config, configRef, pendingEdits, cycle, trip, layout, viewer, mouse >>
  /\ UNCHANGED sceneVars
  /\ UNCHANGED pointerVars

(***************************************************************************)
(* ConfigPanel and App edits.  The panel is rendered from App's state.     *)
(***************************************************************************)
\* The grid buttons the panel clicks in the model.
PanelTargets ==
  {index \in GridIndexes(config) :
     /\ GridCell(config, index).row \in TargetRows
     /\ GridCell(config, index).column \in TargetCols}

PanelCellClick(index) ==
  /\ SetConfig(GridCellClick(config, index))
  /\ UNCHANGED << configRef >>
  /\ UNCHANGED sceneVars
  /\ UNCHANGED pointerVars

PanelCellRemove(index) ==
  /\ FindIndex(config.drawers, GridCell(config, index).row,
               GridCell(config, index).column) > 0
  /\ SetConfig(GridCellRemove(config, index))
  /\ UNCHANGED << configRef >>
  /\ UNCHANGED sceneVars
  /\ UNCHANGED pointerVars

\* The remove button of the "Active Drawers" list.
PanelListRemove(index) ==
  /\ SetConfig(RemoveDrawer(config, index))
  /\ UNCHANGED << configRef >>
  /\ UNCHANGED sceneVars
  /\ UNCHANGED pointerVars

\* The values the sliders and the colour buttons are set to in the model.
SliderValues(key) ==
  CASE key = "shelves" -> 1..MaxShelves
    [] key = "divisions" -> {1, 2}
    [] key = "depth" -> {200000, 400000}
    [] key = "width" -> {1000000, 2500000}
    [] key = "height" -> {1000000, 2400000}
    [] key = "thickness" -> {40000, 80000}
    [] key = "color" -> {"#daa520", "#5c4033"}

\* onValueChange of a slider, onClick of a colour preset: updateConfig(key, value).
PanelUpdate(key, value) ==
  /\ config[key] # value
  /\ SetConfig(UpdateConfig(config, key, value))
  /\ UNCHANGED << configRef >>
  /\ UNCHANGED sceneVars
  /\ UNCHANGED pointerVars

\* App.resetConfig: setConfig(defaultConfig).
ResetConfig ==
  /\ config # DefaultConfig
  /\ SetConfig(DefaultConfig)
  /\ UNCHANGED << configRef >>
  /\ UNCHANGED sceneVars
  /\ UNCHANGED pointerVars

(***************************************************************************)
(* Spec: dragging the bookcase while the depth slider rebuilds it.         *)
(***************************************************************************)
Next ==
  \/ ConfigEffects /\ UNCHANGED auxVars
  \/ \E p \in Intersections : MouseDownBookcase(p) /\ UNCHANGED auxVars
  \/ \E p \in Intersections : MouseMoveDrag(p) /\ UNCHANGED auxVars
  \/ MouseUp /\ UNCHANGED auxVars
  \/ \E value \in SliderValues("depth") :
       PanelUpdate("depth", value) /\ UNCHANGED auxVars
  \/ ResetConfig /\ UNCHANGED auxVars

Spec == Init /\ [][Next]_vars

(***************************************************************************)
(* SpecConfig: every edit of the configuration, by the viewer and by the   *)
(* panel, with the rebuilds that follow.  No drag and no hover: neither    *)
(* reads or writes the configuration or the children of the two groups.    *)
(***************************************************************************)
ConfigKeys == {"shelves", "color"}

NextConfig ==
  \/ ConfigEffects /\ UNCHANGED auxVars
  \/ \E hit \in Targets : MouseDownCompartment(hit) /\ UNCHANGED auxVars
  \/ \E index \in PanelTargets : PanelCellClick(index) /\ UNCHANGED auxVars
  \/ \E index \in PanelTargets : PanelCellRemove(index) /\ UNCHANGED auxVars
  \/ \E index \in DOMAIN config.drawers : PanelListRemove(index) /\ UNCHANGED auxVars
  \/ \E key \in ConfigKeys : \E value \in SliderValues(key) :
       PanelUpdate(key, value) /\ UNCHANGED auxVars
  \/ ResetConfig /\ UNCHANGED auxVars

SpecConfig == Init /\ [][NextConfig]_vars

(***************************************************************************)
(* Configurations given as inputs: a grid, a depth and a list of drawers   *)
(* on the targeted compartments, no two on one compartment.                *)
(***************************************************************************)
DrawerEntries ==
  {[row |-> r, column |-> c, type |-> t] :
     r \in TargetRows, c \in TargetCols, t \in DrawerTypes}

RECURSIVE DrawerLists(_)
DrawerLists(n) ==
  IF n = 0
  THEN {<< >>}
  ELSE DrawerLists(n - 1)
         \cup {Append(l, d) : l \in {k \in DrawerLists(n - 1) : Len(k) = n - 1},
                              d \in DrawerEntries}

InputConfigs ==
  {[DefaultConfig EXCEPT !.shelves = s, !.divisions = d, !.depth = z, !.drawers = l] :
     s \in (1..MaxShelves) \cup {DefaultConfig.shelves},
     d \in SliderValues("divisions"),
     z \in SliderValues("depth"),
     l \in {k \in DrawerLists(MaxDrawers) :
              \A i, j \in DOMAIN k :
                 (k[i].row = k[j].row /\ k[i].column = k[j].column) => i = j}}

(***************************************************************************)
(* SpecCycle: clicks on one compartment, each resolved against the         *)
(* configuration the click before it emitted, from any input configuration *)
(* without a drawer on that compartment.                                    *)
(***************************************************************************)
\* The state of the drawer on (row, column): "absent", "solid" or "glass".
DrawerState(cfg, row, column) ==
  IF FindIndex(cfg.drawers, row, column) = 0
  THEN "absent"
  ELSE cfg.drawers[FindIndex(cfg.drawers, row, column)].type

InitCycle ==
  \E cfg \in InputConfigs : \E r \in TargetRows : \E c \in TargetCols :
    /\ r <= cfg.shelves
    /\ c <= cfg.divisions
    /\ DrawerState(cfg, r, c) = "absent"
    /\ Mounted(cfg)
    /\ cycle = [row |-> r, column |-> c, seen |-> << "absent" >>]
    /\ trip = NoTrip
    /\ layout = NoLayout

\* A press on the hit-region of the compartment, once the effects of the last have run.
CycleClick(hit) ==
  /\ pendingEdits = 0
  /\ Len(cycle.seen) <= MaxClicks
  /\ compartments.children[hit].userData = [row |-> cycle.row, column |-> cycle.column]
  /\ MouseDownCompartment(hit)
  /\ cycle' = [cycle EXCEPT !.seen = Append(@, DrawerState(config', cycle.row, cycle.column))]
  /\ UNCHANGED << trip, pointerInside, layout, viewer, mouse >>

NextCycle ==
  \/ \E hit \in Targets : CycleClick(hit)
  \/ ConfigEffects /\ UNCHANGED auxVars

SpecCycle == InitCycle /\ [][NextCycle]_vars

(***************************************************************************)
(* SpecPanel: clicks on the grid buttons of ConfigPanel and on their       *)
(* remove buttons, from any input configuration.                            *)
(***************************************************************************)
InitPanel ==
  \E cfg \in InputConfigs :
    /\ Mounted(cfg)
    /\ cycle = NoCycle
    /\ trip = NoTrip
    /\ layout = NoLayout

NextPanel ==
  \/ \E index \in PanelTargets : PanelCellClick(index) /\ UNCHANGED auxVars
  \/ \E index \in PanelTargets : PanelCellRemove(index) /\ UNCHANGED auxVars
  \/ ConfigEffects /\ UNCHANGED auxVars

SpecPanel == InitPanel /\ [][NextPanel]_vars

(***************************************************************************)
(* SpecRebuild: a viewer mounted with configuration A, then given B, then  *)
(* A again, each followed by its rebuild.                                   *)
(***************************************************************************)
InitRebuild ==
  \E a \in InputConfigs :
    \E b \in {k \in InputConfigs : Len(k.drawers) <= 1} :
      /\ Mounted(a)
      /\ trip = [a |-> a, b |-> b, todo |-> << b, a >>]
      /\ cycle = NoCycle
      /\ layout = NoLayout

\* The owner of the configuration passes the viewer the next one.
TripSetConfig ==
  /\ pendingEdits = 0
  /\ trip.todo # << >>
  /\ SetConfig(Head(trip.todo))
  /\ trip' = [trip EXCEPT !.todo = Tail(@)]
  /\ UNCHANGED << configRef, cycle, pointerInside, layout, viewer, mouse >>
  /\ UNCHANGED sceneVars
  /\ UNCHANGED pointerVars

NextRebuild ==
  \/ TripSetConfig
  \/ ConfigEffects /\ UNCHANGED auxVars

SpecRebuild == InitRebuild /\ [][NextRebuild]_vars

(***************************************************************************)
(* SpecPointer: the pointer over the viewer: hover, presses on hit-regions *)
(* and on the solid group, drags, releases, leaving the container, and the *)
(* rebuilds the presses bring about.                                        *)
(***************************************************************************)
\* What the ray of a press or a hover move hits first among the hit-regions: none,
\* or the targeted hit-region of the lower row.
PointerHits ==
  {0} \cup {n \in Targets : compartments.children[n].userData.row = MaxShelves}

\* Where it meets the drag plane: nowhere, or under the root as the first build places it.
PointerIntersections ==
  {NoIntersection, [found |-> TRUE, point |-> RestorePosition(Origin, DefaultConfig)]}

NextPointer ==
  \/ ConfigEffects /\ UNCHANGED auxVars
  \/ \E hit \in PointerHits : \E hitsBookcase \in BOOLEAN : \E p \in PointerIntersections :
       /\ pointerInside
       /\ MouseDown(hit, hitsBookcase, p)
       /\ UNCHANGED auxVars
  \/ \E hit \in PointerHits : \E p \in PointerIntersections :
       /\ MouseMove(hit, p)
       /\ pointerInside' = TRUE
       /\ UNCHANGED << cycle, trip, layout, viewer, mouse >>
  \/ MouseUp /\ UNCHANGED auxVars
  \/ MouseLeave

SpecPointer == Init /\ [][NextPointer]_vars

(***************************************************************************)
(* SpecHover: the pointer at a place.  handleMouseMove stores the pointer  *)
(* in sceneRef.current.mouse and handleMouseDown casts its ray from the    *)
(* stored value, so a press hits what lies under the last pointer place in *)
(* the scene as it is at the press.  A ray is taken parallel to the z      *)
(* axis: it hits a mesh when its (x, y) lies within the mesh's width and   *)
(* height about the mesh's place in the scene.                              *)
(***************************************************************************)
\* raycaster.intersectObjects for one mesh of a group.
RayMeets(point, group, mesh) ==
  LET dx == point.x - (group.position.x + mesh.position.x)
      dy == point.y - (group.position.y + mesh.position.y)
  IN  /\ 2 * dx <= mesh.size.w /\ 2 * dx >= 0 - mesh.size.w
      /\ 2 * dy <= mesh.size.h /\ 2 * dy >= 0 - mesh.size.h

\* compartmentIntersects[0]: the index of the hit-region the ray hits, 0 when none.
RayHit(point) ==
  LET met == {n \in DOMAIN compartments.children :
                RayMeets(point, compartments, compartments.children[n])}
  IN  IF met = {} THEN 0 ELSE CHOOSE n \in met : \A k \in met : n <= k

\* bookcaseIntersects.length > 0
RayHitsBookcase(point) ==
  \E n \in DOMAIN bookcase.children : RayMeets(point, bookcase, bookcase.children[n])

\* Where the pointer is moved to: the centre of the upper targeted compartment of the
\* default configuration as first built, and a place below the floor.
HoverPoints ==
  {[x |-> CellX(DefaultConfig, c), y |-> CellY(DefaultConfig, MaxShelves + 1)] :
     c \in TargetCols}
    \cup {[x |-> 0, y |-> -1000000]}

\* Where the ray of an event meets the drag plane: under the root as first built.
HoverIntersections == {[found |-> TRUE, point |-> RestorePosition(Origin, DefaultConfig)]}

\* A mousemove event at point: the handler stores the pointer and casts its ray.
PointerMove(point, intersectPoint) ==
  /\ mouse' = point
  /\ pointerInside' = TRUE
  /\ MouseMove(RayHit(point), intersectPoint)
  /\ UNCHANGED << cycle, trip, layout, viewer >>

\* A mousedown event: the handler casts the ray of the stored pointer.
PointerDown(intersectPoint) ==
  /\ pointerInside
  /\ MouseDown(RayHit(mouse), RayHitsBookcase(mouse), intersectPoint)
  /\ UNCHANGED auxVars

NextHover ==
  \/ ConfigEffects /\ UNCHANGED auxVars
  \/ \E point \in HoverPoints : \E p \in HoverIntersections : PointerMove(point, p)
  \/ \E p \in HoverIntersections : PointerDown(p)
  \/ MouseUp /\ UNCHANGED auxVars
  \/ \E value \in SliderValues("shelves") :
       PanelUpdate("shelves", value) /\ UNCHANGED auxVars
  \/ ResetConfig /\ UNCHANGED auxVars

SpecHover == Init /\ [][NextHover]_vars

(***************************************************************************)
(* SpecFailure: configuration edits whose rebuild may throw in             *)
(* createBookcase.                                                          *)
(***************************************************************************)
NextFailure ==
  \/ ConfigEffects /\ UNCHANGED auxVars
  \/ \E n \in FailurePoints(config) : ConfigEffectsFails(n) /\ UNCHANGED auxVars
  \/ \E index \in PanelTargets : PanelCellClick(index) /\ UNCHANGED auxVars
  \/ \E value \in SliderValues("depth") :
       PanelUpdate("depth", value) /\ UNCHANGED auxVars
  \/ ResetConfig /\ UNCHANGED auxVars

SpecFailure == Init /\ [][NextFailure]_vars

(***************************************************************************)
(* SpecInit: the first commit of BookcaseViewer, whose initialisation      *)
(* effect may throw inside its try block, and the panel edits after it.    *)
(* The effect stores sceneRef.current after the renderer, the lights, the  *)
(* room and the groups exist, and before it adds the listeners and renders *)
(* the first frame.                                                         *)
(***************************************************************************)
\* Where the initialisation throws: nowhere, in new THREE.WebGLRenderer (no
\* render context), or in the first animate() call.
ThrowPoints == {"none", "renderer", "animate"}

\* The message setError is given in the catch clause.
InitError == "Failed to initialize 3D viewer"

\* The component rendered for the first time with cfg, its effects still to run.
Rendered(cfg) ==
  /\ config = cfg
  /\ configRef = cfg
  /\ pendingEdits = 0
  /\ bookcase = FreshGroup
  /\ compartments = FreshGroup
  /\ highlightMesh = FreshHighlight
  /\ hoveredCompartment = NoCompartment
  /\ isDragging = FALSE
  /\ controlsEnabled = TRUE
  /\ dragOffset = Origin
  /\ created = {}
  /\ disposeLog = << >>
  /\ pressY = 0
  /\ lastIntersect = NoIntersection
  /\ pointerInside = FALSE
  /\ mouse = NoMouse
  /\ viewer = [sceneRef |-> FALSE, isLoading |-> TRUE, error |-> NoError, inits |-> 0]

InitInit ==
  /\ Rendered(DefaultConfig)
  /\ cycle = NoCycle
  /\ trip = NoTrip
  /\ layout = NoLayout

\* The effects of the first commit: configRef.current = config, the initialisation
\* with its catch clause, and the rebuild effect behind its sceneRef.current guard.
MountEffects(throwAt) ==
  /\ viewer.inits = 0
  /\ viewer' = [sceneRef |-> throwAt # "renderer",
                isLoading |-> FALSE,
                error |-> IF throwAt = "none" THEN NoError ELSE InitError,
                inits |-> viewer.inits + 1]
  /\ IF viewer'.sceneRef
     THEN /\ bookcase' = RebuiltBookcase(FreshGroup, config)
          /\ compartments' = RebuiltCompartments(FreshGroup, bookcase', config)
          /\ created' = CreatedResources(config)
          /\ UNCHANGED disposeLog
     ELSE UNCHANGED sceneVars
  /\ UNCHANGED << config, configRef, pendingEdits, cycle, trip, pointerInside, layout,
                  mouse >>
  /\ UNCHANGED pointerVars

NextInit ==
  \/ \E throwAt \in ThrowPoints : MountEffects(throwAt)
  \/ ConfigEffects /\ UNCHANGED auxVars
  \/ \E index \in PanelTargets :
       viewer.inits > 0 /\ PanelCellClick(index) /\ UNCHANGED auxVars
  \/ \E value \in SliderValues("depth") :
       viewer.inits > 0 /\ PanelUpdate("depth", value) /\ UNCHANGED auxVars
  \/ viewer.inits > 0 /\ ResetConfig /\ UNCHANGED auxVars

SpecInit == InitInit /\ [][NextInit]_vars

(***************************************************************************)
(* The layout computations: shelfPositions and divisionPositions of the    *)
(* Bookcase component (Bookcase.tsx), and the panel and divider positions  *)
(* and compartment sizes of createBookcase.  A JS number is a record: NaN  *)
(* or a value.                                                              *)
(***************************************************************************)
NaN == [nan |-> TRUE, v |-> 0]
Num(v) == [nan |-> FALSE, v |-> v]

\* (i / n) * extent - extent / 2, where 0 / 0 is NaN (i <= n: no other x / 0 occurs).
Fraction(i, n, extent) ==
  IF n = 0 THEN NaN ELSE Num((i * extent) \div n - extent \div 2)

\* Bookcase: for (let i = 0; i <= shelves; i++) shelfPositions.push(...)
ShelfPositions(cfg) ==
  [k \in 1..(cfg.shelves + 1) |-> Fraction(k - 1, cfg.shelves, cfg.height)]

\* Bookcase: for (let i = 0; i <= divisions; i++) divisionPositions.push(...)
DivisionPositions(cfg) ==
  [k \in 1..(cfg.divisions + 1) |-> Fraction(k - 1, cfg.divisions, cfg.width)]

\* createBookcase: the y of the bottom panel, of the shelves and of the top panel.
PanelPositions(cfg) ==
  << MainStructure(cfg)[1].position.y >>
    \o [i \in DOMAIN ShelfBoxes(cfg) |-> ShelfBoxes(cfg)[i].position.y]
    \o << MainStructure(cfg)[2].position.y >>

\* createBookcase: the x of the left panel, of the divisions and of the right panel.
DividerPositions(cfg) ==
  << MainStructure(cfg)[3].position.x >>
    \o [i \in DOMAIN DivisionBoxes(cfg) |-> DivisionBoxes(cfg)[i].position.x]
    \o << MainStructure(cfg)[4].position.x >>

\* createBookcase: the width and height of a hit-region.
RegionSize(cfg) ==
  [w |-> CompartmentMeshes(cfg)[1].size.w, h |-> CompartmentMeshes(cfg)[1].size.h]

\* createBookcase: the width and height of a drawer box.
DrawerSize(cfg) ==
  LET withDrawer ==
        [cfg EXCEPT !.drawers = << [row |-> 0, column |-> 0, type |-> "solid"] >>]
  IN  [w |-> DrawerMeshes(withDrawer, 1)[1].size.w,
       h |-> DrawerMeshes(withDrawer, 1)[1].size.h]

\* The ends of the sliders of ConfigPanel.
WidthSliderMin == 1000000
WidthSliderMax == 5000000
HeightSliderMin == 1000000
HeightSliderMax == 4000000
ShelvesSliderMin == 1
ShelvesSliderMax == 8
DivisionsSliderMin == 1
DivisionsSliderMax == 6
ThicknessSliderMin == 20000
ThicknessSliderMax == 80000

\* A configuration the sliders can produce.
Producible(cfg) ==
  /\ cfg.width >= WidthSliderMin /\ cfg.width <= WidthSliderMax
  /\ cfg.height >= HeightSliderMin /\ cfg.height <= HeightSliderMax
  /\ cfg.shelves >= ShelvesSliderMin /\ cfg.shelves <= ShelvesSliderMax
  /\ cfg.divisions >= DivisionsSliderMin /\ cfg.divisions <= DivisionsSliderMax
  /\ cfg.thickness >= ThicknessSliderMin /\ cfg.thickness <= ThicknessSliderMax

\* The configurations the layout is computed for: the ends of the sliders, the
\* defaults, and no shelves or no divisions.
LayoutInputs ==
  {[DefaultConfig EXCEPT !.width = w, !.height = h, !.shelves = s, !.divisions = d,
                         !.thickness = t] :
     w \in {WidthSliderMin, DefaultConfig.width, WidthSliderMax},
     h \in {HeightSliderMin, DefaultConfig.height, HeightSliderMax},
     s \in {0, ShelvesSliderMin, DefaultConfig.shelves, ShelvesSliderMax},
     d \in {0, DivisionsSliderMin, DefaultConfig.divisions, DivisionsSliderMax},
     t \in {ThicknessSliderMin, DefaultConfig.thickness, ThicknessSliderMax}}

InitLayout ==
  \E cfg \in LayoutInputs :
    /\ Mounted(DefaultConfig)
    /\ cycle = NoCycle
    /\ trip = NoTrip
    /\ layout = [NoLayout EXCEPT !.config = cfg]

ComputeLayout ==
  /\ ~layout.done
  /\ layout' = [config |-> layout.config, done |-> TRUE,
                shelfPositions |-> ShelfPositions(layout.config),
                divisionPositions |-> DivisionPositions(layout.config),
                panelPositions |-> PanelPositions(layout.config),
                dividerPositions |-> DividerPositions(layout.config),
                regionSize |-> RegionSize(layout.config),
                drawerSize |-> DrawerSize(layout.config)]
  /\ UNCHANGED << config, configRef, pendingEdits, cycle, trip, pointerInside, viewer, mouse >>
  /\ UNCHANGED sceneVars
  /\ UNCHANGED pointerVars

NextLayout == ComputeLayout

SpecLayout == InitLayout /\ [][NextLayout]_vars

(***************************************************************************)
(* Properties.                                                              *)
(***************************************************************************)
CycleStates == << "absent", "solid", "glass" >>

\* C1: consecutive click-resolutions on one compartment, starting without a drawer on
\* it, take its drawer through absent, solid, glass, absent, and then solid again.
C1_DrawerCycle ==
  \A k \in DOMAIN cycle.seen : cycle.seen[k] = CycleStates[((k - 1) % 3) + 1]

\* C1 happens: four clicks have been resolved, on a bookcase that holds another drawer.
C1_FourClicksResolved ==
  /\ Len(cycle.seen) = 5
  /\ Len(config.drawers) = 2

\* C2: the hit-region group is always where the solid group is.
C2_GroupsInLockstep == compartments.position = bookcase.position

\* C3: a rebuild leaves the root's x and z as they were.
C3_RebuildKeepsXZ ==
  [][ConfigEffects =>
       /\ bookcase'.position.x = bookcase.position.x
       /\ bookcase'.position.z = bookcase.position.z]_vars

\* C4: while dragging the root's y stays what it was at the press, and at the release
\* the root's x and z are the last intersection a move computed minus the offset
\* recorded at the press.
C4_DragKeepsYAndEndsAtLastIntersection ==
  [][/\ isDragging => bookcase'.position.y = pressY
     /\ (isDragging /\ ~isDragging' /\ lastIntersect.found) =>
          /\ bookcase'.position.x = lastIntersect.point.x - dragOffset.x
          /\ bookcase'.position.z = lastIntersect.point.z - dragOffset.z]_vars

\* C5: a teardown calls dispose() exactly once on every geometry and every material
\* the build it tears down had created.
C5_DisposedExactlyOnce ==
  \A r \in DOMAIN disposeLog : disposeLog[r] = 1

\* 0 <= row <= shelves and 0 <= column <= divisions
InRange(cfg, drawer) ==
  /\ 0 <= drawer.row /\ drawer.row <= cfg.shelves
  /\ 0 <= drawer.column /\ drawer.column <= cfg.divisions

DrawersOfType(cfg, type) ==
  {i \in DOMAIN cfg.drawers : cfg.drawers[i].type = type}

\* C6: the solid group holds one drawer group for each drawer entry in range and no
\* primitive for an entry out of range.
C6_OutOfRangeDrawersEmitNothing ==
  LET inRange == {i \in DOMAIN configRef.drawers : InRange(configRef, configRef.drawers[i])}
  IN  /\ Cardinality({k \in DOMAIN bookcase.children :
                        bookcase.children[k].kind = "drawer"}) = Cardinality(inRange)
      /\ Len(bookcase.children) =
           5 + configRef.shelves + configRef.divisions
             + 2 * Cardinality(inRange \cap DrawersOfType(configRef, "solid"))
             + 6 * Cardinality(inRange \cap DrawersOfType(configRef, "glass"))

\* C7: the hit-region group holds (shelves+1) x (divisions+1) hit-regions, whose
\* (row, column) tags are pairwise distinct and are exactly 0..shelves x 0..divisions.
C7_HitRegionGrid ==
  LET regions == compartments.children
  IN  /\ Len(regions) = (configRef.shelves + 1) * (configRef.divisions + 1)
      /\ \A i, j \in DOMAIN regions :
           regions[i].userData = regions[j].userData => i = j
      /\ {regions[i].userData : i \in DOMAIN regions} =
           {[row |-> r, column |-> c] :
              r \in 0..configRef.shelves, c \in 0..configRef.divisions}

\* C7 happens: the scene has been rebuilt for a configuration with another grid.
C7_RebuiltWithOtherGrid ==
  /\ Len(trip.todo) = 1
  /\ pendingEdits = 0
  /\ configRef = trip.b
  /\ trip.b.shelves # trip.a.shelves
  /\ trip.b.divisions # trip.a.divisions

\* C8: with all drawers in range, the solid group holds 5 + shelves + divisions
\* + 2 per solid drawer + 6 per glass drawer primitives.
C8_SolidPrimitiveCount ==
  (\A i \in DOMAIN configRef.drawers : InRange(configRef, configRef.drawers[i])) =>
    Len(bookcase.children) =
      5 + configRef.shelves + configRef.divisions
        + 2 * Cardinality(DrawersOfType(configRef, "solid"))
        + 6 * Cardinality(DrawersOfType(configRef, "glass"))

\* C8 happens: the scene has been rebuilt with a solid and a glass drawer in range.
C8_RebuiltWithSolidAndGlass ==
  /\ trip.todo = << >>
  /\ pendingEdits = 0
  /\ DrawersOfType(configRef, "solid") # {}
  /\ DrawersOfType(configRef, "glass") # {}
  /\ \A i \in DOMAIN configRef.drawers : InRange(configRef, configRef.drawers[i])

\* C9: the rebuilds for A, then B, then A leave both groups, children and position,
\* as one build for A on a fresh scene does.
C9_RebuildRoundTrip ==
  (trip.todo = << >> /\ pendingEdits = 0) =>
    /\ bookcase = RebuiltBookcase(FreshGroup, trip.a)
    /\ compartments =
         RebuiltCompartments(FreshGroup, RebuiltBookcase(FreshGroup, trip.a), trip.a)
    /\ Len(bookcase.children) = Len(SolidMeshes(trip.a))
    /\ Len(compartments.children) = Len(CompartmentMeshes(trip.a))

\* C9 happens: A has been rebuilt after a B of another depth, grid and drawer list.
C9_BackAtA ==
  /\ trip.todo = << >>
  /\ pendingEdits = 0
  /\ trip.b.depth # trip.a.depth
  /\ trip.b.shelves # trip.a.shelves
  /\ Len(trip.a.drawers) = 2
  /\ Len(trip.b.drawers) = 1

\* C10: no two drawer entries of the configuration share both row and column.
C10_OneDrawerPerCompartment ==
  \A i, j \in DOMAIN config.drawers :
    (config.drawers[i].row = config.drawers[j].row
       /\ config.drawers[i].column = config.drawers[j].column) => i = j

\* C10 happens: two drawers, set by edits the viewer has not yet seen, after a colour
\* edit.
C10_TwoDrawersAfterEdits ==
  /\ Len(config.drawers) = 2
  /\ Len(configRef.drawers) = 1
  /\ config.color # DefaultConfig.color

\* The drawer entries on the cells other than (row, column), in order.
EntriesElsewhere(drawers, row, column) ==
  LET Elsewhere(d) == ~(d.row = row /\ d.column = column)
  IN  SelectSeq(drawers, Elsewhere)

ScalarKeys == {"width", "height", "depth", "shelves", "divisions", "thickness", "color"}

\* C11: a handleCompartmentClick(row, col) calls onConfigChange once, with a
\* configuration that has the width, height, depth, shelves, divisions, thickness and
\* color of the configuration it read (configRef.current) and the same drawer entries
\* on every other cell, and the configuration it read is left as it was.
C11_ClickEmitsCopyWithOneCellChanged ==
  [][\A hit \in Targets :
       MouseDownCompartment(hit) =>
         LET cell == compartments.children[hit].userData
         IN  /\ pendingEdits' = pendingEdits + 1
             /\ \A key \in ScalarKeys : config'[key] = configRef[key]
             /\ EntriesElsewhere(config'.drawers, cell.row, cell.column) =
                  EntriesElsewhere(configRef.drawers, cell.row, cell.column)
             /\ DrawerState(config', cell.row, cell.column) #
                  DrawerState(configRef, cell.row, cell.column)
             /\ configRef' = configRef]_vars

\* C11 happens: a click on a bookcase of another depth and grid has set a second
\* drawer, next to the one the viewer had read.
C11_ClickAddedSecondDrawer ==
  /\ pendingEdits = 1
  /\ configRef.depth # DefaultConfig.depth
  /\ configRef.divisions # DefaultConfig.divisions
  /\ config.depth = configRef.depth
  /\ Len(configRef.drawers) = 1
  /\ Len(config.drawers) = 2
  /\ config.drawers[1] = configRef.drawers[1]

\* C12: the press that starts a drag, the moves of the drag and its release call
\* onConfigChange never: the configuration stays what it was, no rebuild is pending
\* after them that was not pending before, and the children of both groups stay.
C12_DragLeavesConfiguration ==
  [][(\/ \E p \in Intersections : MouseDownBookcase(p)
      \/ \E p \in Intersections : MouseMoveDrag(p)
      \/ isDragging /\ MouseUp) =>
       /\ config' = config
       /\ configRef' = configRef
       /\ pendingEdits' = pendingEdits
       /\ bookcase'.children = bookcase.children
       /\ compartments' = compartments
       /\ disposeLog' = disposeLog]_vars

\* C12 happens: a drag has moved the root and was released, and no rebuild has ever run.
C12_DraggedWithoutRebuild ==
  /\ ~isDragging
  /\ lastIntersect.found
  /\ bookcase.position.x = 1000000
  /\ config = DefaultConfig
  /\ pendingEdits = 0
  /\ disposeLog = << >>

\* C13: a press whose ray hits a hit-region makes one drawer edit on that hit-region's
\* (row, column) and does not start a drag, whether or not the ray hits the solid group
\* too; a drag starts only at a press whose ray hits no hit-region and hits the solid
\* group.
C13_HitRegionBeforeDrag ==
  [][/\ \A hit \in PointerHits \ {0} : \A hitsBookcase \in BOOLEAN :
          \A p \in PointerIntersections :
            (pointerInside /\ MouseDown(hit, hitsBookcase, p)) =>
              LET cell == compartments.children[hit].userData
              IN  /\ isDragging' = isDragging
                  /\ controlsEnabled' = controlsEnabled
                  /\ dragOffset' = dragOffset
                  /\ pendingEdits' = pendingEdits + 1
                  /\ DrawerState(config', cell.row, cell.column) #
                       DrawerState(configRef, cell.row, cell.column)
                  /\ EntriesElsewhere(config'.drawers, cell.row, cell.column) =
                       EntriesElsewhere(configRef.drawers, cell.row, cell.column)
     /\ (~isDragging /\ isDragging') =>
          /\ config' = config
          /\ \E p \in PointerIntersections : pointerInside /\ MouseDown(0, TRUE, p)]_vars

\* C13 happens: after a drag and its release, a press on a hit-region has set a drawer.
C13_ClickAfterDrag ==
  /\ lastIntersect.found
  /\ ~isDragging
  /\ pendingEdits = 1
  /\ configRef.drawers = << >>
  /\ Len(config.drawers) = 1

\* C14: the orbit control is enabled exactly when no drag is under way.
C14_ControlsEnabledIffIdle == controlsEnabled <=> ~isDragging

\* C14 happens: a drag that moved the root has been released and the pointer hovers
\* over a hit-region again.
C14_IdleAfterDrag ==
  /\ lastIntersect.found
  /\ bookcase.position = Origin
  /\ ~isDragging
  /\ controlsEnabled
  /\ hoveredCompartment # NoCompartment

\* C15: when the pointer leaves the container during a drag, the drag ends and the
\* orbit control is enabled again.
C15_LeaveEndsDrag ==
  [][(pointerInside /\ ~pointerInside' /\ isDragging) =>
       (~isDragging' /\ controlsEnabled')]_vars

\* C17: at every press on a hit-region the effects of every configuration change have
\* run: the hit-regions are those of the latest configuration, configRef holds it, and
\* the edit is computed from it.
C17_PressSeesLatestConfiguration ==
  [][\A hit \in Targets :
       MouseDownCompartment(hit) =>
         /\ pendingEdits = 0
         /\ configRef = config
         /\ compartments.children = CompartmentMeshes(config)
         /\ config' = HandleCompartmentClick(config,
                                             compartments.children[hit].userData.row,
                                             compartments.children[hit].userData.column)]_vars

\* C16: a rebuild leaves in the two groups either all the meshes of the configuration
\* it builds or all the meshes that were there before it.
C16_RebuildAllOrNothing ==
  [][(pendingEdits > 0 /\ pendingEdits' = 0) =>
       \/ /\ bookcase'.children = SolidMeshes(config)
          /\ compartments'.children = CompartmentMeshes(config)
       \/ /\ bookcase'.children = bookcase.children
          /\ compartments'.children = compartments.children]_vars

\* shelves >= 0, divisions >= 0, positive dimensions, thickness below half of them
Valid(cfg) ==
  /\ cfg.shelves >= 0 /\ cfg.divisions >= 0
  /\ cfg.width > 0 /\ cfg.height > 0 /\ cfg.depth > 0 /\ cfg.thickness > 0
  /\ 2 * cfg.thickness < cfg.width /\ 2 * cfg.thickness < cfg.height

StrictlyIncreasing(seq) ==
  \A i \in 1..(Len(seq) - 1) : seq[i] < seq[i + 1]

\* createBookcase places shelves + 2 panels and divisions + 2 dividers, in strictly
\* increasing order between the outer panels.
PanelsOfCreateBookcase ==
  /\ Len(layout.panelPositions) = layout.config.shelves + 2
  /\ Len(layout.dividerPositions) = layout.config.divisions + 2
  /\ StrictlyIncreasing(layout.panelPositions)
  /\ StrictlyIncreasing(layout.dividerPositions)
  /\ layout.panelPositions[1] = layout.config.thickness \div 2
  /\ layout.panelPositions[Len(layout.panelPositions)] =
       layout.config.height - layout.config.thickness \div 2

\* Bookcase computes shelves + 2 shelf positions and divisions + 2 division positions,
\* strictly increasing from one outer bound to the other.
PositionsOfBookcase ==
  LET ys == layout.shelfPositions
      xs == layout.divisionPositions
  IN  /\ Len(ys) = layout.config.shelves + 2
      /\ Len(xs) = layout.config.divisions + 2
      /\ \A i \in DOMAIN ys : ~ys[i].nan
      /\ \A i \in DOMAIN xs : ~xs[i].nan
      /\ StrictlyIncreasing([i \in DOMAIN ys |-> ys[i].v])
      /\ StrictlyIncreasing([i \in DOMAIN xs |-> xs[i].v])
      /\ ys[1].v = 0 - layout.config.height \div 2
      /\ ys[Len(ys)].v = layout.config.height - layout.config.height \div 2

\* C18: for a valid configuration the layout has shelves + 2 panel positions and
\* divisions + 2 divider positions, each strictly increasing from one outer bound to
\* the other.
C18_LayoutPositions ==
  (layout.done /\ Valid(layout.config)) =>
    (PanelsOfCreateBookcase /\ PositionsOfBookcase)

\* createBookcase with no shelves or no divisions: one row or column of hit-regions.
RowsOfCreateBookcase ==
  LET regions == CompartmentMeshes(layout.config)
  IN  /\ layout.config.shelves = 0 =>
           {regions[i].userData.row : i \in DOMAIN regions} = {0}
      /\ layout.config.divisions = 0 =>
           {regions[i].userData.column : i \in DOMAIN regions} = {0}

\* Bookcase with no shelves or no divisions: no NaN position, and the two positions
\* that bound the one row or column.
RowsOfBookcase ==
  /\ \A i \in DOMAIN layout.shelfPositions : ~layout.shelfPositions[i].nan
  /\ \A i \in DOMAIN layout.divisionPositions : ~layout.divisionPositions[i].nan
  /\ layout.config.shelves = 0 => Len(layout.shelfPositions) = 2
  /\ layout.config.divisions = 0 => Len(layout.divisionPositions) = 2

\* C19: with shelves = 0 or divisions = 0 the layout divides by zero nowhere, has no
\* undefined position, and has one compartment row or column.
C19_NoShelvesOrDivisions ==
  (layout.done /\ (layout.config.shelves = 0 \/ layout.config.divisions = 0)) =>
    (RowsOfCreateBookcase /\ RowsOfBookcase)

\* C20: for a configuration the sliders can produce, the width and height of the
\* hit-regions and of the drawer boxes are positive.
C20_PositiveSpans ==
  (layout.done /\ Producible(layout.config)) =>
    /\ layout.regionSize.w > 0 /\ layout.regionSize.h > 0
    /\ layout.drawerSize.w > 0 /\ layout.drawerSize.h > 0

\* The initialisation threw before it stored sceneRef.current.
ThrewBeforeReferences == viewer.error # NoError /\ ~viewer.sceneRef

\* Helper: after a throw before sceneRef.current is stored, the error state is final
\* and no configuration change touches a scene object.
ContextUnavailableIsFinal ==
  /\ [](ThrewBeforeReferences => ~viewer.isLoading /\ viewer.inits = 1)
  /\ [][ThrewBeforeReferences => (viewer' = viewer /\ UNCHANGED sceneVars)]_vars

\* C21: once scene initialisation has thrown, the error message is set and loading is
\* cleared, the error state is entered once and initialisation is not run again, and
\* no later configuration change rebuilds: the scene objects stay as they are.
C21_InitFailureIsFinal ==
  /\ [](viewer.error # NoError => ~viewer.isLoading /\ viewer.inits = 1)
  /\ [][viewer.error # NoError => (viewer' = viewer /\ UNCHANGED sceneVars)]_vars

\* C22: in every configuration reached from the default one by viewer clicks and panel
\* edits, every drawer entry names a compartment of the grid: 0 <= row <= shelves and
\* 0 <= column <= divisions.
C22_DrawersStayInGrid ==
  \A i \in DOMAIN config.drawers : InRange(config, config.drawers[i])

\* C23: in every state in which a drag is under way the hover highlight is not visible.
C23_NoHighlightWhileDragging ==
  isDragging => ~highlightMesh.visible

\* The centre in the scene of a mesh that is a child of group.
WorldCentre(group, mesh) ==
  Vec(group.position.x + mesh.position.x, group.position.y + mesh.position.y,
      group.position.z + mesh.position.z)

\* C24: a move that is not a drag move and hits a hit-region leaves the highlight
\* visible, centred in the scene where that hit-region is centred in the scene, and as
\* wide and as high as that hit-region, wherever the root is.
C24_HighlightCoversHitRegion ==
  [][\A point \in HoverPoints : \A p \in HoverIntersections :
       (~isDragging /\ RayHit(point) > 0 /\ PointerMove(point, p)) =>
         LET region == compartments.children[RayHit(point)]
         IN  /\ highlightMesh'.visible
             /\ highlightMesh'.position = WorldCentre(compartments, region)
             /\ HighlightGeometry.w * highlightMesh'.scale.x = region.size.w
             /\ HighlightGeometry.h * highlightMesh'.scale.y = region.size.h]_vars

\* C27: once the rebuilds are done, a recorded hovered compartment, or the compartment
\* a visible highlight was placed on, is a cell of the current grid.
C27_HoveredCellInGrid ==
  (pendingEdits = 0 /\ (hoveredCompartment # NoCompartment \/ highlightMesh.visible)) =>
    InRange(config, hoveredCompartment)

\* C25: after every rebuild of a bookcase that has not been dragged, the root stands
\* against the back wall for the configuration just built: at
\* (0, 0, -5 + depth / 2 + 0.05).
C25_UndraggedRootAtBackWall ==
  (pendingEdits = 0 /\ lastIntersect = NoIntersection /\ ~isDragging) =>
    bookcase.position = Vec(0, 0, -5000000 + configRef.depth \div 2 + 50000)

\* C26: a drag move whose ray does not meet the drag plane leaves the root's x and z
\* as they were.
C26_MissedRayKeepsRoot ==
  [][(isDragging /\ MouseMoveDrag(NoIntersection)) =>
       /\ bookcase'.position.x = bookcase.position.x
       /\ bookcase'.position.z = bookcase.position.z]_vars

\* The other type of a drawer.
OtherType(type) == IF type = "solid" THEN "glass" ELSE "solid"

\* C28: a click on the grid button of a cell adds a solid drawer there when the cell
\* has none and otherwise switches that drawer between solid and glass, in place; it
\* never removes an entry.  The remove button deletes the one entry of its cell.  Both
\* leave the entries of every other cell and every other field as they were.
C28_GridClickAddsOrToggles ==
  [][\A index \in PanelTargets :
       LET cell == GridCell(config, index)
           before == DrawerState(config, cell.row, cell.column)
           after == DrawerState(config', cell.row, cell.column)
           others == EntriesElsewhere(config.drawers, cell.row, cell.column)
           othersAfter == EntriesElsewhere(config'.drawers, cell.row, cell.column)
       IN  /\ PanelCellClick(index) =>
                /\ cell.row = config.shelves - index \div (config.divisions + 1)
                /\ before = "absent" =>
                     /\ after = "solid"
                     /\ Len(config'.drawers) = Len(config.drawers) + 1
                /\ before # "absent" =>
                     /\ after = OtherType(before)
                     /\ Len(config'.drawers) = Len(config.drawers)
                     /\ \A i \in DOMAIN config.drawers :
                          /\ config'.drawers[i].row = config.drawers[i].row
                          /\ config'.drawers[i].column = config.drawers[i].column
                /\ othersAfter = others
                /\ \A key \in ScalarKeys : config'[key] = config[key]
           /\ PanelCellRemove(index) =>
                /\ before # "absent"
                /\ after = "absent"
                /\ Len(config'.drawers) = Len(config.drawers) - 1
                /\ othersAfter = others
                /\ \A key \in ScalarKeys : config'[key] = config[key]]_vars

\* C28 happens: of two drawers the viewer had built, the panel has removed the first
\* and switched the type of the second.
C28_RemovedOneToggledOther ==
  /\ pendingEdits = 2
  /\ Len(configRef.drawers) = 2
  /\ config.drawers =
       << [configRef.drawers[2] EXCEPT !.type = OtherType(configRef.drawers[2].type)] >>

====
